---- MODULE Spec2Model ----
(***************************************************************************)
(* Vantage dashboard (frontend): the Home page's fetch / live-refresh      *)
(* state machine.                                                          *)
(*                                                                         *)
(* Sources modelled:                                                       *)
(*   src/unnamed/part_000                 Home (the dashboard page)        *)
(*   src/frontend/src/lib/api.ts          analyzeStock                     *)
(*   src/frontend/src/context/AuthContext.tsx   AuthProvider               *)
(*   src/frontend/src/components/SearchBar.tsx  the callers of onSearch    *)
(*                                                                         *)
(* Execution model: one JavaScript event loop.  An action is one task of   *)
(* that loop: an event handler, a timer callback or the continuation of    *)
(* an awaited fetch, run to its next await, together with the React        *)
(* render and the effects that its state updates cause (React flushes the  *)
(* effects of a discrete event before the next task runs).                 *)
(*                                                                         *)
(* A nullable value (T | null) is a set with at most one element:          *)
(* Null is {} and Some(x) is {x}.                                          *)
(***************************************************************************)
EXTENDS Integers, Sequences, FiniteSets

VARIABLES
    \* ---- AuthProvider (AuthContext.tsx) ----
    authLoading,      \* isLoading of the auth context
    user,             \* TRUE iff a signed-in identity is present (user !== null)
    \* ---- Home (part_000) ----
    mounted,          \* the Home component is mounted
    analysis,         \* Null or Some(req): the response to request req
    isLoading,
    error,            \* Null or Some(message)
    currentTicker,    \* "" when no symbol was searched yet
    activePeriod,
    activeInterval,
    autoRefresh,
    lastRefreshed,    \* Null or Some(time)
    isRefreshing,
    refreshTimer,     \* the ref: Null or Some(interval id)
    latestParamsRef,  \* the ref: [ticker, period, interval]
    \* ---- browser ----
    timers,           \* ids of the interval timers that are armed
    nIssued,          \* the number of analysis requests issued so far
    inflight,         \* the requests issued and not yet settled
    \* ---- StockChart (part_002) ----
    active,           \* the overlay visibility store: [OverlayKeys -> BOOLEAN]
    priceChartRef,    \* the ref: Null or Some(chart id)
    macdChartRef,     \* the ref: Null or Some(chart id)
    resizeListener,   \* handleResize is registered on window
    \* ---- browser / lightweight-charts ----
    charts,           \* the chart handles created and not yet removed
    clientWidth,      \* clientWidth of the price container
    \* ---- the data transformations of the effect, run on their own ----
    pureInput,        \* the arguments
    pureOutput,       \* Null before the run, Some(result) after it
    \* ---- MarketList (MarketList.tsx) ----
    marketList,       \* [stage, activeTab, items, isLoading, error, fetches,
                      \*  nFetches]: the component's state and its requests
    \* ---- history ----
    lastOp            \* <<handler that ran last, kind of the request it settled>>

authVars == <<authLoading, user>>
homeVars == <<analysis, isLoading, error, currentTicker, activePeriod,
              activeInterval, autoRefresh, lastRefreshed, isRefreshing,
              latestParamsRef>>
timerVars == <<refreshTimer, timers>>
netVars == <<nIssued, inflight>>
chartVars == <<active, priceChartRef, macdChartRef, resizeListener, charts,
               clientWidth>>
pureVars == <<pureInput, pureOutput>>
vars == <<authVars, mounted, homeVars, timerVars, netVars, chartVars, pureVars,
          marketList, lastOp>>

(***************************************************************************)
(* Bounds of the model.                                                    *)
(***************************************************************************)
MaxRequests == 3     \* analysis requests issued in one behaviour

Null == {}
Some(x) == {x}
TheOne(s) == CHOOSE x \in s : TRUE

\* Symbols the user searches for (the ticker input is free text).
Tickers == {"AAPL", "TSLA"}

\* (yfPeriod, yfInterval) pairs of SearchBar's PERIODS table that the model
\* lets the user pick: the default "2Y" row and the "5Y" row.
PeriodChoices == { [period |-> "2y", interval |-> "1d"],
                   [period |-> "5y", interval |-> "1wk"] }

(***************************************************************************)
(* analyzeStock (api.ts 77-90) and what the network can answer.            *)
(***************************************************************************)
\* What the backend / network does with one request:
\*   ok           res.ok, body parses
\*   httpError    !res.ok, body is JSON; detail is its detail string ("" when
\*                the body carries none)
\*   httpNoJson   !res.ok, body is not JSON
\*   network      fetch itself rejects (TypeError)
Responses ==
    { [kind |-> "ok", detail |-> ""],
      [kind |-> "httpError", detail |-> "Ticker not found"],
      [kind |-> "httpError", detail |-> ""],
      [kind |-> "httpNoJson", detail |-> ""],
      [kind |-> "network", detail |-> ""] }

Failures == { resp \in Responses : resp.kind # "ok" }

\* The Error analyzeStock throws (or fetch rejects with) for a failed request.
\* A message is a tuple of strings, read as their concatenation.
AnalyzeStockThrown(resp, ticker) ==
    CASE resp.kind = "httpError" ->
            \* err.detail || `Failed to analyze ${ticker}`
            [isError |-> TRUE,
             message |-> IF resp.detail # "" THEN <<resp.detail>>
                         ELSE <<"Failed to analyze ", ticker>>]
      [] resp.kind = "httpNoJson" ->
            \* res.json().catch(() => ({ detail: "Unknown error" }))
            [isError |-> TRUE, message |-> <<"Unknown error">>]
      [] resp.kind = "network" ->
            [isError |-> TRUE, message |-> <<"Failed to fetch">>]

\* Mutant of CatchMessage: the catch always shows the generic message.
CatchMessageGeneric(thrown) == <<"Something went wrong">>

\* handleSearch's catch: err instanceof Error ? err.message : "Something went wrong"
CatchMessage(thrown) ==
    IF thrown.isError THEN thrown.message ELSE <<"Something went wrong">>

(***************************************************************************)
(* StockChart (part_002): the overlay visibility store and the container.  *)
(***************************************************************************)
\* 31: type OverlayKey
OverlayKeys == {"sma50", "sma200", "sar", "prediction", "macd"}

\* 47-53: the initial value of the active state
AllVisible == [key \in OverlayKeys |-> TRUE]

\* Widths the price container takes (86, 304: clientWidth); 0 is a container
\* that is collapsed or hidden.
ContainerWidths == {0, 1024}

(***************************************************************************)
(* Initial state: the page has just mounted, the auth session is not yet   *)
(* known, the mount run of the timer effect armed nothing (no ticker).     *)
(***************************************************************************)
\* MarketList.tsx 28-31: the state of a MarketList before its effect has run
MarketListConstructed ==
    [stage |-> "constructed", activeTab |-> "stocks", items |-> <<>>,
     isLoading |-> FALSE, error |-> Null, fetches |-> {}, nFetches |-> 0]

Init ==
    /\ authLoading = TRUE
    /\ user = FALSE
    /\ mounted = TRUE
    /\ analysis = Null
    /\ isLoading = FALSE
    /\ error = Null
    /\ currentTicker = ""
    /\ activePeriod = "2y"
    /\ activeInterval = "1d"
    /\ autoRefresh = TRUE
    /\ lastRefreshed = Null
    /\ isRefreshing = FALSE
    /\ refreshTimer = Null
    /\ latestParamsRef = [ticker |-> "", period |-> "2y", interval |-> "1d"]
    /\ timers = {}
    /\ nIssued = 0
    /\ inflight = {}
    \* no analysis yet: Home renders no StockChart (part_000 208)
    /\ active = AllVisible
    /\ priceChartRef = Null
    /\ macdChartRef = Null
    /\ resizeListener = FALSE
    /\ charts = {}
    /\ clientWidth = 1024
    /\ pureInput = <<>>
    /\ pureOutput = Null
    /\ marketList = MarketListConstructed
    /\ lastOp = <<"mount", "">>

(***************************************************************************)
(* What the page renders.                                                  *)
(***************************************************************************)
\* Home returns the spinner instead of the dashboard while authLoading || !user
\* (part_000 94-103): the search bar, the market list and the header buttons
\* exist only otherwise.
UiShown == mounted /\ ~authLoading /\ user

\* The manual-refresh button and the LIVE/PAUSED toggle are rendered only
\* {currentTicker && ...} (part_000 118).
RefreshControlsShown == UiShown /\ currentTicker # ""

\* Mutant of RefreshDisabled: the button lacks its disabled attribute.
RefreshDisabledNever == FALSE

\* disabled={isRefreshing} on the manual-refresh button (part_000 123).
RefreshDisabled == isRefreshing

\* new Date(): a logical clock, the number of requests settled so far; the
\* completion that reads it is the next one.
Now == (nIssued - Cardinality(inflight)) + 1

(***************************************************************************)
(* The auto-refresh timer effect (part_000 50-61), deps                    *)
(* [autoRefresh, currentTicker, silentRefresh].  A re-run is the cleanup   *)
(* of the previous run followed by the body, with the new values of the    *)
(* deps.                                                                   *)
(***************************************************************************)
\* Mutant of TimerEffectCleanup: the effect returns no cleanup.
TimerEffectCleanupNone(live) == live

\* The cleanup (58-60): clearInterval(refreshTimer.current), ref not nulled.
TimerEffectCleanup(live) == live \ refreshTimer

\* The id setInterval returns: one that names no armed timer and is not the
\* id the ref still holds.  (A browser never hands an id out twice; the model
\* lets the id of a timer that is long gone name a new timer, which keeps the
\* ids finite without bounding the number of timers.)
FreshTimerId ==
    CHOOSE n \in 1..(Cardinality(timers \cup refreshTimer) + 1) :
        /\ n \notin timers \cup refreshTimer
        /\ \A m \in 1..(n - 1) : m \in timers \cup refreshTimer

\* Mutant of RunTimerEffect: the ref is overwritten and the old interval is
\* never cleared.
RunTimerEffectNoClear(auto, ticker) ==
    IF auto /\ ticker # ""
    THEN [timers |-> timers \cup {FreshTimerId}, refreshTimer |-> Some(FreshTimerId)]
    ELSE [timers |-> timers, refreshTimer |-> Null]

RunTimerEffect(auto, ticker) ==
    LET cleaned == TimerEffectCleanup(timers)
        \* 51-54: clearInterval(refreshTimer.current); refreshTimer.current = null
        cleared == cleaned \ refreshTimer
    IN  IF auto /\ ticker # ""
        THEN \* 55-57: refreshTimer.current = setInterval(silentRefresh, ...)
             [timers |-> cleared \cup {FreshTimerId}, refreshTimer |-> Some(FreshTimerId)]
        ELSE [timers |-> cleared, refreshTimer |-> Null]

ApplyTimerEffect(auto, ticker) ==
    LET e == RunTimerEffect(auto, ticker)
    IN  /\ timers' = e.timers
        /\ refreshTimer' = e.refreshTimer

(***************************************************************************)
(* handleSearch (part_000 63-80), up to its await.                         *)
(***************************************************************************)
\* Mutant of LatestParams: only the ticker is stored in the ref.
LatestParamsTickerOnly(old, ticker, period, interval) ==
    [old EXCEPT !.ticker = ticker]

\* 69: latestParamsRef.current = { ticker, period, interval }
LatestParams(old, ticker, period, interval) ==
    [ticker |-> ticker, period |-> period, interval |-> interval]

\* One call of analyzeStock(ticker, period, interval); id is its place in the
\* order of issue, kind the caller ("search", "manual" or "timer").
Request(kind, ticker, period, interval) ==
    [id |-> nIssued + 1, kind |-> kind, ticker |-> ticker, period |-> period,
     interval |-> interval]

Issue(req) ==
    /\ nIssued < MaxRequests
    /\ nIssued' = nIssued + 1
    /\ inflight' = inflight \cup {req}

handleSearch(ticker, period, interval) ==
    /\ isLoading' = TRUE
    /\ error' = Null
    /\ currentTicker' = ticker
    /\ activePeriod' = period
    /\ activeInterval' = interval
    /\ latestParamsRef' = LatestParams(latestParamsRef, ticker, period, interval)
    /\ Issue(Request("search", ticker, period, interval))
    \* the render that follows re-runs the timer effect iff a dep changed
    /\ IF ticker # currentTicker
       THEN ApplyTimerEffect(autoRefresh, ticker)
       ELSE UNCHANGED timerVars
    /\ UNCHANGED <<authVars, mounted, analysis, autoRefresh, lastRefreshed,
                   isRefreshing>>

\* SearchBar.handleSubmit (SearchBar.tsx 37-44): the submit button is
\* disabled={isLoading || !getActiveTicker()} and the input is disabled
\* while loading.
SearchSubmit(ticker, pc) ==
    /\ UiShown
    /\ ~isLoading
    /\ handleSearch(ticker, pc.period, pc.interval)
    /\ lastOp' = <<"search", "">>
    /\ UNCHANGED <<chartVars, pureVars, marketList>>

\* SearchBar.handlePeriodClick (SearchBar.tsx 46-53): never disabled.
PeriodClick(ticker, pc) ==
    /\ UiShown
    /\ handleSearch(ticker, pc.period, pc.interval)
    /\ lastOp' = <<"search", "">>
    /\ UNCHANGED <<chartVars, pureVars, marketList>>

\* handleMarketSelect (part_000 82-84): a click in the market list.
handleMarketSelect(ticker) ==
    /\ UiShown
    /\ handleSearch(ticker, activePeriod, activeInterval)
    /\ lastOp' = <<"search", "">>
    /\ UNCHANGED <<chartVars, pureVars, marketList>>

(***************************************************************************)
(* silentRefresh (part_000 34-47), up to its await.                        *)
(***************************************************************************)
\* Mutant of ReadParams: the refresh re-fetches what is displayed instead of
\* what was searched last.
ReadParamsDisplayed ==
    IF analysis # Null
    THEN LET a == TheOne(analysis)
         IN  [ticker |-> a.ticker, period |-> a.period, interval |-> a.interval]
    ELSE latestParamsRef

\* 35: const { ticker, period, interval } = latestParamsRef.current
ReadParams == latestParamsRef

silentRefresh(kind) ==
    LET p == ReadParams
    IN  IF p.ticker = ""
        THEN \* 36: if (!ticker) return
             UNCHANGED <<isRefreshing, netVars>>
        ELSE /\ isRefreshing' = IF mounted THEN TRUE ELSE isRefreshing
             /\ Issue(Request(kind, p.ticker, p.period, p.interval))

\* Mutant of Tick: a tick shows the loading state as a search does.
TickWithSpinner(id) ==
    /\ id \in timers
    /\ silentRefresh("timer")
    /\ isLoading' = IF mounted THEN TRUE ELSE isLoading
    /\ lastOp' = <<"tick", "">>
    /\ UNCHANGED <<chartVars, pureVars, marketList>>
    /\ UNCHANGED <<authVars, mounted, analysis, error, currentTicker,
                   activePeriod, activeInterval, autoRefresh, lastRefreshed,
                   latestParamsRef, timerVars>>

\* The interval timer fires (part_000 56: setInterval(silentRefresh, ...)).
Tick(id) ==
    /\ id \in timers
    /\ silentRefresh("timer")
    /\ lastOp' = <<"tick", "">>
    /\ UNCHANGED <<chartVars, pureVars, marketList>>
    /\ UNCHANGED <<authVars, mounted, analysis, isLoading, error, currentTicker,
                   activePeriod, activeInterval, autoRefresh, lastRefreshed,
                   latestParamsRef, timerVars>>

\* A click on the manual-refresh button (part_000 121-128); a disabled
\* button dispatches no click.
ClickRefresh ==
    /\ RefreshControlsShown
    /\ IF RefreshDisabled
       THEN UNCHANGED <<isRefreshing, netVars>>
       ELSE silentRefresh("manual")
    /\ lastOp' = <<"clickRefresh", "">>
    /\ UNCHANGED <<chartVars, pureVars, marketList>>
    /\ UNCHANGED <<authVars, mounted, analysis, isLoading, error, currentTicker,
                   activePeriod, activeInterval, autoRefresh, lastRefreshed,
                   latestParamsRef, timerVars>>

\* The LIVE/PAUSED toggle (part_000 131-133): setAutoRefresh(v => !v), then
\* the timer effect re-runs.
ToggleAutoRefresh ==
    /\ RefreshControlsShown
    /\ autoRefresh' = ~autoRefresh
    /\ ApplyTimerEffect(~autoRefresh, currentTicker)
    /\ lastOp' = <<"toggle", "">>
    /\ UNCHANGED <<chartVars, pureVars, marketList>>
    /\ UNCHANGED <<authVars, mounted, analysis, isLoading, error, currentTicker,
                   activePeriod, activeInterval, lastRefreshed, isRefreshing,
                   latestParamsRef, netVars>>

(***************************************************************************)
(* Fetch completions: the continuations after the awaits.  A state setter  *)
(* of a component that has unmounted updates nothing.                      *)
(***************************************************************************)
Settle(r) ==
    /\ r \in inflight
    /\ inflight' = inflight \ {r}
    /\ nIssued' = nIssued

\* handleSearch 72-73, 78
SearchSucceeds(r) ==
    /\ r.kind = "search"
    /\ Settle(r)
    /\ IF mounted
       THEN /\ analysis' = Some(r)
            /\ lastRefreshed' = Some(Now)
            /\ isLoading' = FALSE
       ELSE UNCHANGED <<analysis, lastRefreshed, isLoading>>
    /\ lastOp' = <<"ok", r.kind>>
    /\ UNCHANGED <<chartVars, pureVars, marketList>>
    /\ UNCHANGED <<authVars, mounted, error, currentTicker, activePeriod,
                   activeInterval, autoRefresh, isRefreshing, latestParamsRef,
                   timerVars>>

\* Mutant of SearchFails: the catch of handleSearch is as silent as the one of
\* silentRefresh.
SearchFailsSilent(r, resp) ==
    /\ r.kind = "search"
    /\ Settle(r)
    /\ isLoading' = IF mounted THEN FALSE ELSE isLoading
    /\ lastOp' = <<"fail", r.kind>>
    /\ UNCHANGED <<chartVars, pureVars, marketList>>
    /\ UNCHANGED <<authVars, mounted, analysis, error, currentTicker, activePeriod,
                   activeInterval, autoRefresh, lastRefreshed, isRefreshing,
                   latestParamsRef, timerVars>>

\* handleSearch 74-76, 78
SearchFails(r, resp) ==
    /\ r.kind = "search"
    /\ Settle(r)
    /\ IF mounted
       THEN /\ error' = Some(CatchMessage(AnalyzeStockThrown(resp, r.ticker)))
            /\ analysis' = Null
            /\ isLoading' = FALSE
       ELSE UNCHANGED <<error, analysis, isLoading>>
    /\ lastOp' = <<"fail", r.kind>>
    /\ UNCHANGED <<chartVars, pureVars, marketList>>
    /\ UNCHANGED <<authVars, mounted, currentTicker, activePeriod, activeInterval,
                   autoRefresh, lastRefreshed, isRefreshing, latestParamsRef,
                   timerVars>>

\* Mutant of RefreshSucceeds: a refresh that completes stops the interval.
RefreshSucceedsStopping(r) ==
    /\ r.kind # "search"
    /\ Settle(r)
    /\ IF mounted
       THEN /\ analysis' = Some(r)
            /\ lastRefreshed' = Some(Now)
            /\ isRefreshing' = FALSE
       ELSE UNCHANGED <<analysis, lastRefreshed, isRefreshing>>
    /\ timers' = TimerEffectCleanup(timers)
    /\ refreshTimer' = Null
    /\ lastOp' = <<"ok", r.kind>>
    /\ UNCHANGED <<chartVars, pureVars, marketList>>
    /\ UNCHANGED <<authVars, mounted, isLoading, error, currentTicker, activePeriod,
                   activeInterval, autoRefresh, latestParamsRef>>

\* silentRefresh 40-41, 45
RefreshSucceeds(r) ==
    /\ r.kind # "search"
    /\ Settle(r)
    /\ IF mounted
       THEN /\ analysis' = Some(r)
            /\ lastRefreshed' = Some(Now)
            /\ isRefreshing' = FALSE
       ELSE UNCHANGED <<analysis, lastRefreshed, isRefreshing>>
    /\ lastOp' = <<"ok", r.kind>>
    /\ UNCHANGED <<chartVars, pureVars, marketList>>
    /\ UNCHANGED <<authVars, mounted, isLoading, error, currentTicker, activePeriod,
                   activeInterval, autoRefresh, latestParamsRef, timerVars>>

\* Mutant of RefreshFails: the catch of silentRefresh clears the data as the
\* one of handleSearch does.
RefreshFailsClearing(r) ==
    /\ r.kind # "search"
    /\ Settle(r)
    /\ IF mounted
       THEN /\ analysis' = Null
            /\ error' = Some(<<"Something went wrong">>)
            /\ isRefreshing' = FALSE
       ELSE UNCHANGED <<analysis, error, isRefreshing>>
    /\ lastOp' = <<"fail", r.kind>>
    /\ UNCHANGED <<chartVars, pureVars, marketList>>
    /\ UNCHANGED <<authVars, mounted, isLoading, currentTicker, activePeriod,
                   activeInterval, autoRefresh, lastRefreshed, latestParamsRef,
                   timerVars>>

\* silentRefresh 42-45: the catch binds nothing and is empty, whatever was thrown
RefreshFails(r) ==
    /\ r.kind # "search"
    /\ Settle(r)
    /\ isRefreshing' = IF mounted THEN FALSE ELSE isRefreshing
    /\ lastOp' = <<"fail", r.kind>>
    /\ UNCHANGED <<chartVars, pureVars, marketList>>
    /\ UNCHANGED <<authVars, mounted, analysis, isLoading, error, currentTicker,
                   activePeriod, activeInterval, autoRefresh, lastRefreshed,
                   latestParamsRef, timerVars>>

(***************************************************************************)
(* Unmount: the user leaves the page or a router.push("/login") lands      *)
(* (part_000 87-91, 166).  The timer effect's cleanup runs.                *)
(***************************************************************************)
Unmount ==
    /\ mounted
    /\ mounted' = FALSE
    /\ timers' = TimerEffectCleanup(timers)
    /\ lastOp' = <<"unmount", "">>
    /\ UNCHANGED <<chartVars, pureVars, marketList>>
    /\ UNCHANGED <<authVars, homeVars, refreshTimer, netVars>>

(***************************************************************************)
(* AuthProvider (AuthContext.tsx 43-56, 71-74).                            *)
(***************************************************************************)
\* getSession().then: setUser(session?.user ...); setIsLoading(false)
SessionResolved(u) ==
    /\ mounted
    /\ authLoading
    /\ user' = u
    /\ authLoading' = FALSE
    /\ lastOp' = <<"session", "">>
    /\ UNCHANGED <<chartVars, pureVars, marketList>>
    /\ UNCHANGED <<mounted, homeVars, timerVars, netVars>>

\* The identity goes away while the page is shown: logout's setUser(null)
\* (71-74) or onAuthStateChange with no session (51-53).  Home then redirects
\* to /login (part_000 87-91) and unmounts when the navigation lands; a new
\* sign-in happens on that other page.
SignedOut ==
    /\ mounted
    /\ ~authLoading
    /\ user
    /\ user' = FALSE
    /\ lastOp' = <<"signedOut", "">>
    /\ UNCHANGED <<chartVars, pureVars, marketList>>
    /\ UNCHANGED <<authLoading, mounted, homeVars, timerVars, netVars>>

Next ==
    \/ \E t \in Tickers, pc \in PeriodChoices : SearchSubmit(t, pc)
    \/ \E t \in Tickers, pc \in PeriodChoices : PeriodClick(t, pc)
    \/ \E t \in Tickers : handleMarketSelect(t)
    \/ \E id \in timers : Tick(id)
    \/ ClickRefresh
    \/ ToggleAutoRefresh
    \/ \E r \in inflight : SearchSucceeds(r)
    \/ \E r \in inflight, resp \in Failures : SearchFails(r, resp)
    \/ \E r \in inflight : RefreshSucceeds(r)
    \/ \E r \in inflight : RefreshFails(r)
    \/ Unmount
    \/ \E u \in BOOLEAN : SessionResolved(u)
    \/ SignedOut

Spec == Init /\ [][Next]_vars

\* LiveSpec: the dashboard with searches submitted from the search bar, and
\* an armed interval timer that keeps firing (setInterval, part_000 56).
LiveNext ==
    \/ \E t \in Tickers, pc \in PeriodChoices : SearchSubmit(t, pc)
    \/ \E id \in timers : Tick(id)
    \/ ClickRefresh
    \/ ToggleAutoRefresh
    \/ \E r \in inflight : SearchSucceeds(r)
    \/ \E r \in inflight, resp \in Failures : SearchFails(r, resp)
    \/ \E r \in inflight : RefreshSucceeds(r)
    \/ \E r \in inflight : RefreshFails(r)
    \/ Unmount
    \/ \E u \in BOOLEAN : SessionResolved(u)
    \/ SignedOut

LiveSpec == Init /\ [][LiveNext]_vars /\ WF_vars(\E id \in timers : Tick(id))

(***************************************************************************)
(* SearchBarSpec: the dashboard with the search bar's text field           *)
(* (SearchBar.tsx).  A text is a sequence of pieces, each a blank or a run *)
(* of non-blank characters; what the user has typed is an input of the     *)
(* handlers.                                                               *)
(***************************************************************************)
\* What the user may have typed into the field
TypedTexts == { <<>>, <<" ">>, <<" ", "tsla", " ">> }

\* String.prototype.toUpperCase on a piece
toUpperCase(piece) ==
    CASE piece = "aapl" -> "AAPL"
      [] piece = "tsla" -> "TSLA"
      [] OTHER -> piece

\* SearchBar.tsx 65: setTicker(e.target.value.toUpperCase())
onChange(typed) == [i \in 1..Len(typed) |-> toUpperCase(typed[i])]

\* String.prototype.trim: the blanks at both ends go
trim(text) ==
    LET solid == { i \in 1..Len(text) : text[i] # " " }
    IN  IF solid = {} THEN <<>>
        ELSE SubSeq(text, CHOOSE i \in solid : \A j \in solid : i <= j,
                          CHOOSE i \in solid : \A j \in solid : j <= i)

\* SearchBar.tsx 35: ticker.trim().toUpperCase() || currentTicker || "".
\* The texts tried have one run at most, which is the ticker then.
getActiveTicker(text) ==
    LET cleaned == [i \in 1..Len(trim(text)) |-> toUpperCase(trim(text)[i])]
    IN  IF cleaned # <<>> THEN cleaned[1] ELSE currentTicker

\* SearchBar.tsx 37-44; the submit button is disabled={isLoading ||
\* !getActiveTicker()} (92) and the field is disabled while loading (68).
handleSubmit(typed, pc) ==
    /\ getActiveTicker(onChange(typed)) # ""
    /\ SearchSubmit(getActiveTicker(onChange(typed)), pc)

\* Mutant of handlePeriodClick: onSearch is called whatever the ticker is.
handlePeriodClickUnguarded(typed, pc) ==
    PeriodClick(getActiveTicker(onChange(typed)), pc)

\* SearchBar.tsx 46-53: with no ticker the click only selects the period
handlePeriodClick(typed, pc) ==
    /\ getActiveTicker(onChange(typed)) # ""
    /\ PeriodClick(getActiveTicker(onChange(typed)), pc)

SearchBarNext ==
    \/ \E typed \in TypedTexts, pc \in PeriodChoices : handleSubmit(typed, pc)
    \/ \E typed \in TypedTexts, pc \in PeriodChoices : handlePeriodClick(typed, pc)
    \/ \E id \in timers : Tick(id)
    \/ ClickRefresh
    \/ ToggleAutoRefresh
    \/ \E r \in inflight : SearchSucceeds(r)
    \/ \E r \in inflight, resp \in Failures : SearchFails(r, resp)
    \/ \E r \in inflight : RefreshSucceeds(r)
    \/ \E r \in inflight : RefreshFails(r)
    \/ Unmount
    \/ \E u \in BOOLEAN : SessionResolved(u)
    \/ SignedOut

SearchBarSpec == Init /\ [][SearchBarNext]_vars

(***************************************************************************)
(* Properties.                                                             *)
(***************************************************************************)
\* The requests a step settles and the requests it issues.
SettledBy == inflight \ inflight'
IssuedBy == inflight' \ inflight

\* The refresh requests (manual or timer-driven) in flight for the active symbol.
RefreshesInFlight ==
    { r \in inflight : r.kind \in {"manual", "timer"} /\ r.ticker = currentTicker }

\* C1: in every reachable state of the mounted dashboard at most one refresh
\* request for the active symbol is in flight, manual and timer-driven
\* refreshes counted together.
C1_AtMostOneRefreshInFlight ==
    mounted => Cardinality(RefreshesInFlight) <= 1

\* C2: a fetch that settles for a symbol that is no longer the active one is
\* dropped: that step sets neither the displayed analysis nor lastRefreshed.
C2_StaleResultDropped ==
    [][\A r \in SettledBy :
          (mounted /\ r.ticker # currentTicker)
              => (analysis' = analysis /\ lastRefreshed' = lastRefreshed)]_vars

\* C3: a timer tick that fires while a manual refresh is in flight issues no
\* request.
C3_TickSkippedWhileManualInFlight ==
    [][(lastOp'[1] = "tick" /\ \E r \in inflight : r.kind = "manual")
          => (IssuedBy = {} /\ nIssued' = nIssued)]_vars

\* C4: a click on the manual-refresh button while isRefreshing is true issues
\* no request and changes no state of the dashboard.
C4_ManualRefreshNoOpWhileRefreshing ==
    [][(lastOp'[1] = "clickRefresh" /\ isRefreshing)
          => UNCHANGED <<authVars, mounted, homeVars, timerVars, netVars>>]_vars

\* C4 witness: the button was clicked while only a timer-driven refresh was in
\* flight (an effective click would have left a manual request in flight).
C4_Witness ==
    /\ lastOp[1] = "clickRefresh"
    /\ isRefreshing
    /\ inflight # {}
    /\ \A r \in inflight : r.kind = "timer"

\* C5: the step in which a timer-driven refresh fails leaves the displayed
\* analysis, lastRefreshed and the user-visible error as they were.
C5_FailedRefreshKeepsData ==
    [][(lastOp'[1] = "fail" /\ lastOp'[2] = "timer")
          => (analysis' = analysis /\ lastRefreshed' = lastRefreshed /\ error' = error)]_vars

\* C5 witness: a timer-driven refresh has just failed after a successful load,
\* whose data is still displayed.
C5_Witness ==
    /\ mounted
    /\ lastOp = <<"fail", "timer">>
    /\ analysis # Null
    /\ lastRefreshed # Null
    /\ error = Null

\* A symbol has rendered data when the displayed analysis is a response for it.
HasRenderedData(ticker) ==
    analysis # Null /\ TheOne(analysis).ticker = ticker

\* C6 as claimed: a failed fetch sets the error and clears the data only when
\* it is a search for a symbol that has no rendered data; every other failed
\* fetch (manual refresh, timer tick, re-fetch of a symbol with rendered data)
\* leaves analysis and error unchanged.
C6_ErrorOnlyOnFirstFetch ==
    [][\A r \in SettledBy :
          (mounted /\ lastOp'[1] = "fail")
              => IF r.kind = "search" /\ ~HasRenderedData(r.ticker)
                 THEN error' # Null /\ analysis' = Null
                 ELSE analysis' = analysis /\ error' = error]_vars

\* C6 as amended: while the dashboard is mounted, a failed fetch sets the
\* error and clears the data exactly when it was started by a search (submit,
\* period click, market-list selection), rendered data or not; a failed
\* refresh (manual button or timer tick) leaves analysis and error unchanged.
C6_ErrorOnEverySearchFailure ==
    [][\A r \in SettledBy :
          (mounted /\ lastOp'[1] = "fail")
              => IF r.kind = "search"
                 THEN error' # Null /\ analysis' = Null
                 ELSE analysis' = analysis /\ error' = error]_vars

\* C6 witness: a search has just failed after an earlier fetch had succeeded;
\* the data is gone and the error is shown.
C6_Witness ==
    /\ mounted
    /\ lastOp = <<"fail", "search">>
    /\ lastRefreshed # Null
    /\ analysis = Null
    /\ error # Null

\* C7: when a search fetch fails, the error becomes the detail string of the
\* non-success response when it carries one and a fallback message otherwise,
\* analysis becomes null and isLoading false.
C7_SearchFailureSurfaced ==
    [][\A r \in SettledBy, resp \in Failures :
          (mounted /\ lastOp'[1] = "fail" /\ SearchFails(r, resp))
              => /\ error' # Null
                 /\ (resp.kind = "httpError" /\ resp.detail # ""
                        => error' = Some(<<resp.detail>>))
                 /\ (resp.kind = "httpError" /\ resp.detail = ""
                        => error' = Some(<<"Failed to analyze ", r.ticker>>))
                 /\ analysis' = Null
                 /\ isLoading' = FALSE]_vars

\* C7 witness: the first fetch of a symbol has failed with a detail string,
\* which is the error shown over the empty view.
C7_Witness ==
    /\ mounted
    /\ lastOp = <<"fail", "search">>
    /\ nIssued = 1
    /\ error = Some(<<"Ticker not found">>)
    /\ analysis = Null
    /\ ~isLoading

\* C8: every request a timer tick issues is for the symbol of the latest
\* search, so after a start for A and then a start for B no tick fetches A.
C8_TickFetchesLatestSymbol ==
    [][lastOp'[1] = "tick" => \A r \in IssuedBy : r.ticker = currentTicker]_vars

\* C8 witness: a search for one symbol, then a search for another before any
\* tick, then a tick, which fetched the second symbol.
C8_Witness ==
    /\ lastOp[1] = "tick"
    /\ \E a, b, c \in inflight :
          /\ a.id = 1 /\ a.kind = "search"
          /\ b.id = 2 /\ b.kind = "search" /\ b.ticker # a.ticker
          /\ c.id = 3 /\ c.kind = "timer" /\ c.ticker = b.ticker

\* C9: the request a timer tick issues carries the symbol, period and interval
\* of the latest search at fire time, also when only the period or interval
\* changed since the timer was armed.
C9_TickUsesParamsAtFireTime ==
    [][lastOp'[1] = "tick"
          => /\ IssuedBy # {}
             /\ \A r \in IssuedBy :
                   /\ r.kind = "timer"
                   /\ r.ticker = currentTicker
                   /\ r.period = activePeriod
                   /\ r.interval = activeInterval]_vars

\* C9 witness: the timer armed by the first search ticked after a second
\* search for the same symbol with another period (which re-arms nothing), and
\* fetched the second search's period and interval.
C9_Witness ==
    /\ lastOp[1] = "tick"
    /\ \E a, b, c \in inflight :
          /\ a.id = 1 /\ a.kind = "search"
          /\ b.id = 2 /\ b.kind = "search" /\ b.ticker = a.ticker
          /\ b.period # a.period
          /\ c.id = 3 /\ c.kind = "timer" /\ c.period = b.period
          /\ c.interval = b.interval

\* A step that disables auto-refresh, changes the symbol or unmounts the page.
CancelStep ==
    \/ autoRefresh /\ ~autoRefresh'
    \/ currentTicker' # currentTicker
    \/ mounted /\ ~mounted'

\* C10: a step that disables auto-refresh, changes the symbol or unmounts the
\* page leaves no timer armed that was pending before it (only armed timers
\* tick), and it settles no request that is in flight.
C10_PendingTimerCancelled ==
    [][CancelStep => /\ \A id \in timers : id \notin timers'
                     /\ inflight \subseteq inflight']_vars

\* C10 witness: auto-refresh has just been switched off; the timer had ticked,
\* its request is still in flight, and no timer is armed.
C10_Witness ==
    /\ lastOp[1] = "toggle"
    /\ ~autoRefresh
    /\ timers = {}
    /\ \E r \in inflight : r.kind = "timer"

\* C11: a timer-driven refresh that settles after auto-refresh was disabled or
\* the dashboard was unmounted is not acted on: that step changes neither the
\* displayed analysis nor lastRefreshed.
C11_RefreshAfterIdleIgnored ==
    [][\A r \in SettledBy :
          (r.kind = "timer" /\ (~autoRefresh \/ ~mounted))
              => (analysis' = analysis /\ lastRefreshed' = lastRefreshed)]_vars

\* C12: while no fetch has succeeded yet no timer is armed and no tick issues
\* a request.  (The claim asks for a success for the ticked symbol; a success
\* for any symbol is the least it requires, and lastRefreshed records one.)
C12_NoTickBeforeFirstSuccess ==
    [][/\ (lastOp'[1] = "tick" /\ IssuedBy # {}) => lastRefreshed # Null
       /\ timers' # {} => lastRefreshed' # Null]_vars

\* C13: no timer tick issues a request while a search fetch for the active
\* symbol is still in flight.
C13_NoTickDuringSwitchFetch ==
    [][(lastOp'[1] = "tick" /\ IssuedBy # {})
          => ~\E q \in inflight : q.kind = "search" /\ q.ticker = currentTicker]_vars

(***************************************************************************)
(* StockChart (part_002) under Home.                                       *)
(*                                                                         *)
(* Home renders <StockChart data={analysis.ohlcv} ticker={analysis.ticker} *)
(* overlays={analysis.overlays}/> only while analysis && !isLoading        *)
(* (part_000 208-221).  In ChartSpec the response is spelled out: analysis *)
(* is Null or Some(payload), and Home is reduced to what decides whether   *)
(* the chart is rendered and with which props (mounted, analysis,          *)
(* isLoading, currentTicker); its fetch and timer machinery is Spec's.     *)
(*                                                                         *)
(* The visibility store lives in the StockChart instance.  While no        *)
(* instance is mounted, active keeps the last value the store had, so that *)
(* a remount can be compared with what was shown before; mounting sets the *)
(* initial value (47-53).                                                  *)
(*                                                                         *)
(* A date string is [digits, n]: digits says whether it matches /^\d+$/    *)
(* (an intraday Unix timestamp) and n is the instant it denotes.  A Time   *)
(* is [num, n]: a number (num) or the date string itself.                  *)
(***************************************************************************)
\* 18-23
toTime(dateStr) == [num |-> dateStr.digits, n |-> dateStr.n]

\* Mutant of LineData: the filter tests p.value for truthiness and so drops
\* the value 0 as well.
LineDataTruthy(points) ==
    LET present == SelectSeq(points, LAMBDA p : p.value # Null /\ p.value # Some(0))
    IN  [i \in 1..Len(present) |->
            [time |-> toTime(present[i].date), value |-> TheOne(present[i].value)]]

\* 138-139, 153-154, 160, 169-172: .filter(p => p.value !== null).map(...)
LineData(points) ==
    LET present == SelectSeq(points, LAMBDA p : p.value # Null)
    IN  [i \in 1..Len(present) |->
            [time |-> toTime(present[i].date), value |-> TheOne(present[i].value)]]

\* 250-252, 263-265, 275-279: the same on one field of the MACD points
MacdData(points, field) ==
    LET present == SelectSeq(points, LAMBDA p : p[field] # Null)
    IN  [i \in 1..Len(present) |->
            [time |-> toTime(present[i].date), value |-> TheOne(present[i][field])]]

\* 100-106: candleData (open, high and low do not matter to what is built)
CandleData(data) ==
    [i \in 1..Len(data) |-> [time |-> toTime(data[i].date), value |-> data[i].close]]

\* 119-123
VolumeData(data) ==
    [i \in 1..Len(data) |-> [time |-> toTime(data[i].date), value |-> data[i].volume]]

\* 199: the comparator (a.time as number) - (b.time as number); with a string
\* operand the difference is NaN, which Array.prototype.sort takes as 0.
CompareTime(a, b) ==
    IF a.time.num /\ b.time.num
    THEN (IF a.time.n < b.time.n THEN -1 ELSE IF a.time.n > b.time.n THEN 1 ELSE 0)
    ELSE 0

\* 199: Array.prototype.sort is stable; insertion from the left keeps equal
\* elements in their order.
RECURSIVE InsertSorted(_, _)
InsertSorted(sorted, p) ==
    IF sorted = <<>> THEN <<p>>
    ELSE IF CompareTime(p, sorted[Len(sorted)]) < 0
         THEN InsertSorted(SubSeq(sorted, 1, Len(sorted) - 1), p)
                  \o <<sorted[Len(sorted)]>>
         ELSE sorted \o <<p>>

RECURSIVE SortByTime(_)
SortByTime(points) ==
    IF points = <<>> THEN <<>>
    ELSE InsertSorted(SortByTime(SubSeq(points, 1, Len(points) - 1)),
                      points[Len(points)])

\* 200-202: drop a point whose time equals that of the point before it
DropAdjacentDuplicates(points) ==
    LET keep == { i \in 1..Len(points) : i = 1 \/ points[i].time # points[i-1].time }
        Nth(k) == CHOOSE i \in keep : Cardinality({ j \in keep : j <= i }) = k
    IN  [k \in 1..Cardinality(keep) |-> points[Nth(k)]]

\* 188-202: predData
PredictionData(data, prediction) ==
    LET lastBar == data[Len(data)]
        later == SelectSeq(prediction, LAMBDA p : p.date # lastBar.date)
        stitched == <<[time |-> toTime(lastBar.date), value |-> lastBar.close]>>
                    \o [i \in 1..Len(later) |->
                           [time |-> toTime(later[i].date), value |-> later[i].value]]
    IN  DropAdjacentDuplicates(SortByTime(stitched))

\* lightweight-charts' setData takes points in strictly ascending time
\* order; a build that validates its input throws on anything else.
Ascending(points) ==
    \A i \in 1..(Len(points) - 1) : points[i].time.n < points[i+1].time.n

(***************************************************************************)
(* Which series the effect attaches (126-205, 224-228).                    *)
(***************************************************************************)
\* 129
ShowSma50(act, o) == act["sma50"] /\ Len(o.sma_50) > 0

\* Mutant of ShowSma200: the guard reads the key of the other moving average.
ShowSma200OtherKey(act, o) == act["sma50"] /\ Len(o.sma_200) > 0

\* 144
ShowSma200(act, o) == act["sma200"] /\ Len(o.sma_200) > 0

\* Mutant of ShowSar: the trail is attached whatever its key says.
ShowSarAlways(act, o) == Len(o.sar) > 0 /\ Len(LineData(o.sar)) > 0

\* 159-161
ShowSar(act, o) == act["sar"] /\ Len(o.sar) > 0 /\ Len(LineData(o.sar)) > 0

\* 178
ShowPrediction(act, o) == act["prediction"] /\ Len(o.prediction) > 0

\* 225-226, 390: the oscillator container is rendered, and the oscillator
\* chart built, under the same condition; macdContainerRef.current (227) is
\* set exactly when the container is rendered.
ShowMacd(act, overlays) ==
    act["macd"] /\ overlays # Null /\ Len(TheOne(overlays).macd) > 0

Series(name, points) == [name |-> name, points |-> points]

\* 90-205: the series of the price chart with their data, in the order the
\* effect attaches them.
PriceSeries(data, overlays, act) ==
    <<Series("candle", CandleData(data)), Series("volume", VolumeData(data))>>
    \o (IF overlays = Null THEN <<>>
        ELSE LET o == TheOne(overlays)
             IN  (IF ShowSma50(act, o)
                  THEN <<Series("sma50", LineData(o.sma_50))>> ELSE <<>>)
                 \o (IF ShowSma200(act, o)
                     THEN <<Series("sma200", LineData(o.sma_200))>> ELSE <<>>)
                 \o (IF ShowSar(act, o)
                     THEN <<Series("sar", LineData(o.sar))>> ELSE <<>>)
                 \o (IF ShowPrediction(act, o)
                     THEN <<Series("prediction", PredictionData(data, o.prediction))>>
                     ELSE <<>>))

\* 242-285: the series of the oscillator chart
MacdSeries(overlays) ==
    LET o == TheOne(overlays)
    IN  <<Series("macd", MacdData(o.macd, "macd")),
          Series("signal", MacdData(o.macd, "signal")),
          Series("histogram", MacdData(o.macd, "histogram"))>>

\* The series on which setData throws: the first whose data is out of order
\* when the library validates, 0 when none throws.
FirstRejected(series, validates) ==
    LET bad == { i \in 1..Len(series) : ~Ascending(series[i].points) }
    IN  IF validates /\ bad # {}
        THEN CHOOSE i \in bad : \A j \in bad : i <= j
        ELSE 0

SeriesNames(series, upTo) == [i \in 1..upTo |-> series[i].name]

(***************************************************************************)
(* The chart handles.                                                      *)
(***************************************************************************)
\* createChart (77-88, 229-240) returns a new handle
FreshChartId(live) ==
    CHOOSE n \in 1..(Cardinality(live) + 1) :
        /\ n \notin { c.id : c \in live }
        /\ \A m \in 1..(n - 1) : m \in { c.id : c \in live }

Chart(id, pane, width, series, window) ==
    [id |-> id, pane |-> pane, width |-> width, series |-> series,
     window |-> window]

\* The visible window of a chart's time scale: the one createChart starts
\* with, the whole content (fitContent, 207, 287), or a logical range
\* (setVisibleLogicalRange, 213-216, 293-296).
DefaultWindow == [kind |-> "default", from |-> 0, to |-> 0]
FitContent == [kind |-> "fit", from |-> 0, to |-> 0]
LogicalRange(from, to) == [kind |-> "range", from |-> from, to |-> to]

\* 211, 291
VisibleBars == 120

\* Mutant of VisibleWindow: the range is counted from the first bar.
VisibleWindowOldest(total) ==
    LET visible == IF VisibleBars < total THEN VisibleBars ELSE total
    IN  IF total > visible THEN LogicalRange(0, visible) ELSE FitContent

\* 207-217, 287-297: fitContent(), then the last Math.min(120, total) points
\* when there are more than that
VisibleWindow(total) ==
    LET visible == IF VisibleBars < total THEN VisibleBars ELSE total
    IN  IF total > visible
        THEN LogicalRange(total - visible, total)
        ELSE FitContent

\* 62-69, 316-323: remove() on the charts the two refs hold
RemoveOwned(live, priceRef, macdRef) ==
    { c \in live : c.id \notin (priceRef \cup macdRef) }

\* Mutant of EffectCleanup: the cleanup only takes the listener away.
EffectCleanupKeepsCharts(state) == [state EXCEPT !.listener = FALSE]

\* 314-324: the cleanup the effect returned; an effect run that returned
\* early (59) or threw returned none.
EffectCleanup(state) ==
    IF state.listener
    THEN [charts |-> RemoveOwned(state.charts, state.price, state.macd),
          price |-> Null, macd |-> Null, listener |-> FALSE, threw |-> FALSE]
    ELSE state

\* 62-69: the teardown at the start of the effect body
EffectTeardown(state) ==
    [state EXCEPT !.charts = RemoveOwned(state.charts, state.price, state.macd),
                  !.price = Null, !.macd = Null]

\* 77-219: the price chart.  A throw leaves the chart as far as it was
\* built, held by no ref.
BuildPriceChart(state, data, overlays, act, width, validates) ==
    LET series == PriceSeries(data, overlays, act)
        rejected == FirstRejected(series, validates)
        id == FreshChartId(state.charts)
    IN  IF rejected # 0
        THEN [state EXCEPT
                 !.charts = @ \cup {Chart(id, "price", width,
                                          SeriesNames(series, rejected),
                                          DefaultWindow)},
                 !.threw = TRUE]
        ELSE [state EXCEPT
                 !.charts = @ \cup {Chart(id, "price", width,
                                          SeriesNames(series, Len(series)),
                                          VisibleWindow(Len(CandleData(data))))},
                 !.price = Some(id)]

\* 224-300: the oscillator chart
BuildMacdChart(state, overlays, act, width, validates) ==
    IF ~ShowMacd(act, overlays) THEN state
    ELSE LET series == MacdSeries(overlays)
             rejected == FirstRejected(series, validates)
             id == FreshChartId(state.charts)
         IN  IF rejected # 0
             THEN [state EXCEPT
                      !.charts = @ \cup {Chart(id, "macd", width,
                                               SeriesNames(series, rejected),
                                               DefaultWindow)},
                      !.threw = TRUE]
             ELSE [state EXCEPT
                      !.charts = @ \cup {Chart(id, "macd", width,
                                               SeriesNames(series, Len(series)),
                                               VisibleWindow(Len(series[1].points)))},
                      !.macd = Some(id)]

\* 58-325: one run of the effect body on the props and the visibility act.
\* The oscillator container has the width of the price container.
StockChartEffect(state, props, act, width, validates) ==
    IF Len(props.ohlcv) = 0 THEN state                       \* 59
    ELSE LET torn == EffectTeardown(state)
             price == BuildPriceChart(torn, props.ohlcv, props.overlays, act,
                                      width, validates)
             macd == IF price.threw THEN price
                      ELSE BuildMacdChart(price, props.overlays, act, width,
                                          validates)
         IN  IF macd.threw THEN macd
             ELSE [macd EXCEPT !.listener = TRUE]             \* 312

\* The chart state as one record
ChartState ==
    [charts |-> charts, price |-> priceChartRef, macd |-> macdChartRef,
     listener |-> resizeListener, threw |-> FALSE]

(***************************************************************************)
(* Analysis payloads (api.ts 8-15, 37-76): the inputs of ChartSpec.        *)
(***************************************************************************)
DateStr(intraday, k) == [digits |-> intraday, n |-> k]

\* OHLCVBar[]: two bars in time order
Bars(intraday) ==
    <<[date |-> DateStr(intraday, 1), close |-> 100, volume |-> 10],
      [date |-> DateStr(intraday, 2), close |-> 101, volume |-> 20]>>

\* OverlayPoint[] (value: number | null)
OverlayPoints(shape, intraday) ==
    CASE shape = "empty" -> <<>>
      [] shape = "allnull" -> <<[date |-> DateStr(intraday, 1), value |-> Null],
                                [date |-> DateStr(intraday, 2), value |-> Null]>>
      [] shape = "good" -> <<[date |-> DateStr(intraday, 1), value |-> Null],
                             [date |-> DateStr(intraday, 2), value |-> Some(100)]>>

MacdPoint(intraday, k, macd, signal, histogram) ==
    [date |-> DateStr(intraday, k), macd |-> macd, signal |-> signal,
     histogram |-> histogram]

\* MACDPoint[] (macd, signal, histogram: number | null)
MacdPoints(shape, intraday) ==
    CASE shape = "empty" -> <<>>
      [] shape = "nullfast" -> <<MacdPoint(intraday, 1, Null, Some(1), Null),
                                 MacdPoint(intraday, 2, Null, Some(2), Null)>>
      [] shape = "good" -> <<MacdPoint(intraday, 1, Some(1), Null, Null),
                             MacdPoint(intraday, 2, Some(2), Some(1), Some(1))>>
      [] shape = "unordered" -> <<MacdPoint(intraday, 2, Some(2), Some(1), Some(1)),
                                  MacdPoint(intraday, 1, Some(1), Some(1), Some(0))>>

\* PredictionPoint[]: "stale" has points at and before the last bar,
\* "atlast" its only point at the last bar
PredictionPoints(shape, intraday) ==
    CASE shape = "empty" -> <<>>
      [] shape = "atlast" -> <<[date |-> DateStr(intraday, 2), value |-> 101]>>
      [] shape = "good" -> <<[date |-> DateStr(intraday, 3), value |-> 102],
                             [date |-> DateStr(intraday, 4), value |-> 105]>>
      [] shape = "stale" -> <<[date |-> DateStr(intraday, 2), value |-> 101],
                              [date |-> DateStr(intraday, 1), value |-> 99],
                              [date |-> DateStr(intraday, 3), value |-> 102]>>

BundleShape(sma50, sma200, sar, macd, prediction, intraday) ==
    [sma_50 |-> sma50, sma_200 |-> sma200, sar |-> sar, macd |-> macd,
     prediction |-> prediction, intraday |-> intraday]

\* The shapes of the overlay bundles tried: complete ones (daily and
\* intraday), ones with a sequence out of order, and ones in which some or
\* all sequences are empty or hold no value.
BundleShapes ==
    { BundleShape("good", "good", "good", "good", "good", FALSE),
      BundleShape("good", "good", "good", "good", "stale", TRUE),
      BundleShape("good", "good", "good", "good", "stale", FALSE),
      BundleShape("good", "good", "good", "unordered", "good", FALSE),
      BundleShape("allnull", "empty", "allnull", "nullfast", "empty", FALSE),
      BundleShape("good", "empty", "good", "empty", "good", FALSE),
      BundleShape("allnull", "good", "allnull", "good", "empty", FALSE),
      BundleShape("empty", "good", "empty", "good", "atlast", TRUE) }

\* ChartOverlays
Overlays(sh) ==
    [sma_50 |-> OverlayPoints(sh.sma_50, sh.intraday),
     sma_200 |-> OverlayPoints(sh.sma_200, sh.intraday),
     sar |-> OverlayPoints(sh.sar, sh.intraday),
     macd |-> MacdPoints(sh.macd, sh.intraday),
     prediction |-> PredictionPoints(sh.prediction, sh.intraday)]

\* n bars in time order
BarsN(n) ==
    [i \in 1..n |-> [date |-> DateStr(FALSE, i), close |-> 100, volume |-> 10]]

\* A MACDPoint for each of n bars; the first lead of them have no value yet.
MacdPointsN(n, lead) ==
    [i \in 1..n |->
        IF i <= lead THEN MacdPoint(FALSE, i, Null, Null, Null)
        ELSE MacdPoint(FALSE, i, Some(1), Some(1), Some(0))]

\* Payloads around the size of the visible window: 130 daily bars, of which
\* 125 have a MACD value; 121 bars with 120 MACD values; 40 weekly bars.
WindowData ==
    { [ohlcv |-> BarsN(size[1]),
       overlays |-> Some([sma_50 |-> <<>>, sma_200 |-> <<>>, sar |-> <<>>,
                          macd |-> MacdPointsN(size[1], size[2]),
                          prediction |-> <<>>])] :
          size \in {<<130, 5>>, <<121, 1>>, <<40, 0>>} }

WindowPayloads(ticker) ==
    { [ticker |-> ticker, ohlcv |-> w.ohlcv, overlays |-> w.overlays] :
          w \in WindowData }

\* StockAnalysis: ticker, ohlcv, overlays (overlays: ChartOverlays | null)
AnalysisPayloads(ticker) ==
    { [ticker |-> ticker, ohlcv |-> Bars(sh.intraday), overlays |-> Some(Overlays(sh))] :
          sh \in BundleShapes }
    \cup { [ticker |-> ticker, ohlcv |-> Bars(FALSE), overlays |-> Null],
           [ticker |-> ticker, ohlcv |-> <<>>, overlays |-> Null] }

(***************************************************************************)
(* ChartSpec: the actions.  One action is one task of the event loop with  *)
(* the React commit it causes: unmounting StockChart runs the effect's     *)
(* cleanup, mounting it runs the effect on a fresh instance, and a change  *)
(* of data, ticker, overlays or active (325) runs the cleanup and then the *)
(* effect.  An error thrown by the effect is caught by no boundary of the  *)
(* page: React unmounts the page, and the effect that threw has no cleanup *)
(* to run.                                                                 *)
(***************************************************************************)
\* part_000 208: {analysis && !isLoading && ( ... <StockChart/> ... )}
ChartShown == mounted /\ analysis # Null /\ ~isLoading

\* 42-45: the refs of a new instance
FreshInstance ==
    [charts |-> charts, price |-> Null, macd |-> Null, listener |-> FALSE,
     threw |-> FALSE]

\* The chart state after the commit that follows a task: willShow says
\* whether Home renders the chart after it, props and act are the props and
\* the visibility it then has.
AfterCommit(willShow, props, act, validates) ==
    IF ChartShown
    THEN IF willShow
         THEN StockChartEffect(EffectCleanup(ChartState), props, act, clientWidth,
                               validates)
         ELSE EffectCleanup(ChartState)
    ELSE IF willShow
         THEN StockChartEffect(FreshInstance, props, AllVisible, clientWidth,
                               validates)
         ELSE ChartState

\* The commit: whether the library validates the data it is given depends
\* on its build, so both outcomes are possible.
Commit(op, homeMounted, willShow, props, act) ==
    \E after \in { AfterCommit(willShow, props, act, validates) :
                       validates \in BOOLEAN } :
        /\ charts' = after.charts
        /\ priceChartRef' = after.price
        /\ macdChartRef' = after.macd
        /\ resizeListener' = after.listener
        /\ active' = IF ~ChartShown /\ willShow THEN AllVisible ELSE act
        /\ mounted' = (homeMounted /\ ~after.threw)
        /\ lastOp' = <<op[1], op[2], IF after.threw THEN "threw" ELSE "">>

\* handleSearch up to its await (part_000 63-69): setIsLoading(true) takes
\* the results block, and the chart in it, off the page.
ChartHandleSearch(ticker) ==
    /\ mounted
    /\ ~isLoading
    /\ isLoading' = TRUE
    /\ currentTicker' = ticker
    /\ Commit(<<"search", "">>, TRUE, FALSE, <<>>, active)
    /\ UNCHANGED <<authVars, analysis, error, activePeriod, activeInterval,
                   autoRefresh, lastRefreshed, isRefreshing, latestParamsRef,
                   timerVars, netVars, clientWidth, pureVars, marketList>>

\* handleSearch after a successful await (70-72, 77-78)
ChartSearchSucceeds(payload) ==
    /\ mounted
    /\ isLoading
    /\ analysis' = Some(payload)
    /\ isLoading' = FALSE
    /\ Commit(<<"ok", "search">>, TRUE, TRUE, payload, active)
    /\ UNCHANGED <<authVars, error, currentTicker, activePeriod, activeInterval,
                   autoRefresh, lastRefreshed, isRefreshing, latestParamsRef,
                   timerVars, netVars, clientWidth, pureVars, marketList>>

\* handleSearch after a failed await (73-78): setAnalysis(null)
ChartSearchFails ==
    /\ mounted
    /\ isLoading
    /\ analysis' = Null
    /\ isLoading' = FALSE
    /\ Commit(<<"fail", "search">>, TRUE, FALSE, <<>>, active)
    /\ UNCHANGED <<authVars, error, currentTicker, activePeriod, activeInterval,
                   autoRefresh, lastRefreshed, isRefreshing, latestParamsRef,
                   timerVars, netVars, clientWidth, pureVars, marketList>>

\* silentRefresh after a successful await (part_000 39-41): setAnalysis(result)
ChartRefreshSucceeds(payload) ==
    /\ mounted
    /\ currentTicker # ""
    /\ analysis' = Some(payload)
    /\ Commit(<<"ok", "refresh">>, TRUE, ~isLoading, payload, active)
    /\ UNCHANGED <<authVars, isLoading, error, currentTicker, activePeriod,
                   activeInterval, autoRefresh, lastRefreshed, isRefreshing,
                   latestParamsRef, timerVars, netVars, clientWidth, pureVars, marketList>>

\* Mutant of Toggled: the click shows the overlay and hides every other one.
ToggledSolo(act, key) == [k \in OverlayKeys |-> k = key]

\* 56: prev => ({ ...prev, [key]: !prev[key] })
Toggled(act, key) == [act EXCEPT ![key] = ~act[key]]

\* 55-56, 336-361: a click on an overlay button; the buttons are rendered
\* only with overlays.
toggle(key) ==
    /\ ChartShown
    /\ TheOne(analysis).overlays # Null
    /\ Commit(<<"toggle", key>>, TRUE, TRUE, TheOne(analysis),
              Toggled(active, key))
    /\ UNCHANGED <<authVars, homeVars, timerVars, netVars, clientWidth, pureVars, marketList>>

\* Mutant of handleResize: the handler takes the oscillator chart down.
handleResizeDropping(w) ==
    /\ mounted
    /\ clientWidth' = w
    /\ charts' = { c \in charts : c.id \notin macdChartRef }
    /\ macdChartRef' = Null
    /\ lastOp' = <<"resize", "", "">>
    /\ UNCHANGED <<authVars, mounted, homeVars, timerVars, netVars, active,
                   priceChartRef, resizeListener, pureVars, marketList>>

\* The window is resized and the container takes width w; handleResize
\* (303-311) runs if the effect registered it (312).
handleResize(w) ==
    /\ mounted
    /\ clientWidth' = w
    /\ charts' = IF resizeListener /\ w # 0
                 THEN { IF c.id \in (priceChartRef \cup macdChartRef)
                        THEN [c EXCEPT !.width = w] ELSE c : c \in charts }
                 ELSE charts
    /\ lastOp' = <<"resize", "", "">>
    /\ UNCHANGED <<authVars, mounted, homeVars, timerVars, netVars, active,
                   priceChartRef, macdChartRef, resizeListener, pureVars, marketList>>

\* Home leaves the page (part_000 87-91): StockChart unmounts with it.
ChartUnmount ==
    /\ mounted
    /\ Commit(<<"unmount", "">>, FALSE, FALSE, <<>>, active)
    /\ UNCHANGED <<authVars, homeVars, timerVars, netVars, clientWidth, pureVars, marketList>>

\* The dashboard of a signed-in user before the first search.
ChartInit ==
    /\ authLoading = FALSE
    /\ user = TRUE
    /\ mounted = TRUE
    /\ analysis = Null
    /\ isLoading = FALSE
    /\ error = Null
    /\ currentTicker = ""
    /\ activePeriod = "2y"
    /\ activeInterval = "1d"
    /\ autoRefresh = TRUE
    /\ lastRefreshed = Null
    /\ isRefreshing = FALSE
    /\ refreshTimer = Null
    /\ latestParamsRef = [ticker |-> "", period |-> "2y", interval |-> "1d"]
    /\ timers = {}
    /\ nIssued = 0
    /\ inflight = {}
    /\ active = AllVisible
    /\ priceChartRef = Null
    /\ macdChartRef = Null
    /\ resizeListener = FALSE
    /\ charts = {}
    /\ clientWidth \in ContainerWidths
    /\ pureInput = <<>>
    /\ pureOutput = Null
    /\ marketList = MarketListConstructed
    /\ lastOp = <<"mount", "", "">>

ChartNext ==
    \/ \E t \in Tickers : ChartHandleSearch(t)
    \/ \E p \in AnalysisPayloads(currentTicker) : ChartSearchSucceeds(p)
    \/ ChartSearchFails
    \/ \E p \in AnalysisPayloads(currentTicker) : ChartRefreshSucceeds(p)
    \/ \E key \in OverlayKeys : toggle(key)
    \/ \E w \in ContainerWidths : handleResize(w)
    \/ ChartUnmount

ChartSpec == ChartInit /\ [][ChartNext]_vars

\* WindowSpec: the same chart, fed with the payloads around the size of the
\* visible window.
WindowNext ==
    \/ \E t \in Tickers : ChartHandleSearch(t)
    \/ \E p \in WindowPayloads(currentTicker) : ChartSearchSucceeds(p)
    \/ ChartSearchFails
    \/ \E p \in WindowPayloads(currentTicker) : ChartRefreshSucceeds(p)
    \/ \E key \in OverlayKeys : toggle(key)
    \/ \E w \in ContainerWidths : handleResize(w)
    \/ ChartUnmount

WindowSpec == ChartInit /\ [][WindowNext]_vars

(***************************************************************************)
(* Claims about the chart (checked under ChartSpec).                       *)
(***************************************************************************)
ChartsOfPane(pane) == { c \in charts : c.pane = pane }

\* C14: across renders, overlay toggles, payload changes, resizes and
\* unmounts there is never more than one live chart handle for the price pane
\* nor more than one for the oscillator pane.
C14_OneHandlePerPane ==
    /\ Cardinality(ChartsOfPane("price")) <= 1
    /\ Cardinality(ChartsOfPane("macd")) <= 1

\* Both panes were rebuilt by a toggle and each has its one chart.
C14_Witness ==
    /\ lastOp[1] = "toggle"
    /\ lastOp[3] = ""
    /\ priceChartRef # Null
    /\ macdChartRef # Null
    /\ Cardinality(ChartsOfPane("price")) = 1
    /\ Cardinality(ChartsOfPane("macd")) = 1

\* C15: every live chart handle is owned by priceChartRef or macdChartRef,
\* and while no StockChart is mounted no chart handle is live.
C15_NoChartOutlivesTeardown ==
    /\ \A c \in charts : c.id \in (priceChartRef \cup macdChartRef)
    /\ ~ChartShown => charts = {}

\* C16: a render pass that fails leaves the charts of the previous
\* successful render in place and no partially built chart behind: the step
\* in which the effect throws changes neither the live charts nor the refs.
C16_FailedRenderKeepsPanes ==
    [][lastOp'[3] = "threw"
          => /\ charts' = charts
             /\ priceChartRef' = priceChartRef
             /\ macdChartRef' = macdChartRef]_vars

\* C17: the visibility store maps the five keys to booleans, all true when
\* a StockChart mounts, and toggle(key) flips the entry of key and changes no
\* other entry.
C17_ToggleFlipsOneKey ==
    /\ [](active \in [OverlayKeys -> BOOLEAN])
    /\ [][/\ (~ChartShown /\ ChartShown') => active' = AllVisible
          /\ lastOp'[1] = "toggle"
                => \A k \in OverlayKeys :
                       active'[k] = IF k = lastOp'[2] THEN ~active[k] ELSE active[k]]_vars

\* The trail was toggled back on while the oscillator stayed hidden.
C17_Witness ==
    /\ lastOp = <<"toggle", "sar", "">>
    /\ active = [AllVisible EXCEPT !["macd"] = FALSE]

\* C18: switching symbols does not reset overlay visibility: when the search
\* for another symbol has completed and its chart is shown, every key has the
\* value it had when the previous symbol's chart was last shown.
C18_SwitchKeepsVisibility ==
    [][(/\ lastOp' = <<"ok", "search", "">>
        /\ analysis # Null
        /\ TheOne(analysis).ticker # TheOne(analysis').ticker)
           => active' = active]_vars

\* The names of the series on the chart a ref holds
SeriesShown(ref) ==
    UNION { { c.series[i] : i \in 1..Len(c.series) } :
                c \in { d \in charts : d.id \in ref } }

AllHidden == [key \in OverlayKeys |-> FALSE]

\* C19: when every visibility key is false, the render of a payload with
\* bars yields one price chart with exactly the candlestick and the volume
\* series, and no oscillator chart, whatever the overlay bundle holds.
C19_AllHiddenBareChart ==
    (ChartShown /\ active = AllHidden /\ Len(TheOne(analysis).ohlcv) > 0)
        => /\ priceChartRef # Null
           /\ \A c \in charts :
                  /\ c.id \in priceChartRef
                  /\ c.series = <<"candle", "volume">>
           /\ macdChartRef = Null

\* Everything is hidden on a payload whose bundle has every overlay.
C19_Witness ==
    /\ ChartShown
    /\ active = AllHidden
    /\ lastOp[1] = "toggle"
    /\ priceChartRef # Null
    /\ TheOne(analysis).overlays # Null
    /\ LET o == TheOne(TheOne(analysis).overlays)
       IN  /\ ShowSma50(AllVisible, o)
           /\ ShowSma200(AllVisible, o)
           /\ ShowSar(AllVisible, o)
           /\ ShowPrediction(AllVisible, o)
           /\ Len(o.macd) > 0

C21_MacdPaneIffFastLine ==
    (ChartShown /\ priceChartRef # Null)
        => (macdChartRef # Null
               <=> /\ active["macd"]
                   /\ TheOne(analysis).overlays # Null
                   /\ Len(MacdData(TheOne(TheOne(analysis).overlays).macd, "macd")) > 0)

\* The overlay lines with their visibility key and their field of the bundle
OverlayLines == { <<"sma50", "sma_50">>, <<"sma200", "sma_200">>, <<"sar", "sar">> }

\* C31: after a completed render, an overlay line (SMA 50, SMA 200, SAR)
\* that is toggled on and whose sequence has no point left after the null
\* filter has no series on the price chart.
C31_EmptyOverlayOmitted ==
    (ChartShown /\ priceChartRef # Null /\ TheOne(analysis).overlays # Null)
        => \A line \in OverlayLines :
               (active[line[1]]
                   /\ LineData(TheOne(TheOne(analysis).overlays)[line[2]]) = <<>>)
                  => line[1] \notin SeriesShown(priceChartRef)

\* C32: after a completed render the price chart has a prediction series
\* only if the stitched prediction data has at least two points; with an
\* empty prediction sequence, where it is the anchor alone, there is none.
C32_PredictionNeedsTwoPoints ==
    (ChartShown /\ priceChartRef # Null /\ TheOne(analysis).overlays # Null)
        => ("prediction" \in SeriesShown(priceChartRef)
               => Len(PredictionData(TheOne(analysis).ohlcv,
                                     TheOne(TheOne(analysis).overlays).prediction)) >= 2)

\* C33: a resize changes the charts in their width only: the same handles
\* stay live with the same pane, series and window, the refs and the
\* listener are untouched, and each chart a ref holds takes the new width of
\* the container when the handler is registered and that width is not 0.
C33_ResizeOnlySetsWidth ==
    [][lastOp'[1] = "resize"
          => /\ { c.id : c \in charts' } = { c.id : c \in charts }
             /\ \A c \in charts : \E d \in charts' :
                    /\ d.id = c.id
                    /\ d.pane = c.pane
                    /\ d.series = c.series
                    /\ d.window = c.window
                    /\ d.width = IF resizeListener /\ clientWidth' # 0
                                    /\ c.id \in (priceChartRef \cup macdChartRef)
                                 THEN clientWidth' ELSE c.width
             /\ Cardinality(charts') = Cardinality(charts)
             /\ priceChartRef' = priceChartRef
             /\ macdChartRef' = macdChartRef
             /\ resizeListener' = resizeListener
             /\ active' = active]_vars

\* Both charts were built in a container of width 0 and have just been
\* resized to 1024.
C33_Witness ==
    /\ lastOp[1] = "resize"
    /\ clientWidth = 1024
    /\ priceChartRef # Null
    /\ macdChartRef # Null
    /\ Cardinality(charts) = 2
    /\ \A c \in charts : c.width = 1024 /\ Len(c.series) >= 3

(***************************************************************************)
(* NormalizerSpec: the null filter and conversion the effect applies to an *)
(* overlay or MACD sequence before setData (part_002 136-140, 151-155,     *)
(* 160-173, 249-285), run on its own on every sequence of up to MaxPoints  *)
(* points.                                                                 *)
(***************************************************************************)
MaxPoints == 3       \* points in an input sequence

SeqsUpTo(S, n) == UNION { [1..k -> S] : k \in 0..n }

\* date strings: calendar days and Unix timestamps
InputDates == { DateStr(intraday, k) : intraday \in BOOLEAN, k \in 1..2 }

\* OverlayPoint (api.ts 50-53)
OverlayPointInputs ==
    [date : InputDates, value : {Null, Some(0), Some(7)}]

\* MACDPoint (api.ts 55-60)
MacdPointInputs ==
    [date : { DateStr(FALSE, k) : k \in 1..2 }, macd : {Null, Some(0)},
     signal : {Null, Some(1)}, histogram : {Null, Some(0)}]

\* Everything outside the transformation is as after construction and stays so.
DashboardIdle ==
    /\ authLoading = TRUE
    /\ user = FALSE
    /\ mounted = TRUE
    /\ analysis = Null
    /\ isLoading = FALSE
    /\ error = Null
    /\ currentTicker = ""
    /\ activePeriod = "2y"
    /\ activeInterval = "1d"
    /\ autoRefresh = TRUE
    /\ lastRefreshed = Null
    /\ isRefreshing = FALSE
    /\ refreshTimer = Null
    /\ latestParamsRef = [ticker |-> "", period |-> "2y", interval |-> "1d"]
    /\ timers = {}
    /\ nIssued = 0
    /\ inflight = {}
    /\ active = AllVisible
    /\ priceChartRef = Null
    /\ macdChartRef = Null
    /\ resizeListener = FALSE
    /\ charts = {}
    /\ clientWidth = 1024
    /\ marketList = MarketListConstructed

dashboardVars == <<authVars, mounted, homeVars, timerVars, netVars, chartVars,
                   marketList>>

NormalizerInit ==
    /\ DashboardIdle
    /\ pureInput \in
           { [kind |-> "overlay", points |-> pts] :
                 pts \in SeqsUpTo(OverlayPointInputs, MaxPoints) }
           \cup { [kind |-> "macd", points |-> pts] :
                      pts \in SeqsUpTo(MacdPointInputs, MaxPoints) }
    /\ pureOutput = Null
    /\ lastOp = <<"input", "">>

\* 136-140 (and 151-155, 160-173): the data of an overlay line
NormalizeOverlay ==
    /\ pureInput.kind = "overlay"
    /\ pureOutput = Null
    /\ pureOutput' = Some(LineData(pureInput.points))
    /\ lastOp' = <<"normalize", "value">>
    /\ UNCHANGED <<dashboardVars, pureInput>>

\* 249-253, 262-266, 274-285: the data of one of the three oscillator series
NormalizeMacd(field) ==
    /\ pureInput.kind = "macd"
    /\ pureOutput = Null
    /\ pureOutput' = Some(MacdData(pureInput.points, field))
    /\ lastOp' = <<"normalize", field>>
    /\ UNCHANGED <<dashboardVars, pureInput>>

NormalizerNext ==
    \/ NormalizeOverlay
    \/ \E field \in {"macd", "signal", "histogram"} : NormalizeMacd(field)

NormalizerSpec == NormalizerInit /\ [][NormalizerNext]_vars

\* The indices of the points whose field is present, and the k-th of them
PresentAt(points, field) == { i \in 1..Len(points) : points[i][field] # Null }

NthPresent(points, field, k) ==
    CHOOSE i \in PresentAt(points, field) :
        Cardinality({ j \in PresentAt(points, field) : j <= i }) = k

\* A normalized sequence read as overlay points again: the time key as the
\* date, the value as a present value.
AsOverlayPoints(out) ==
    [i \in 1..Len(out) |->
        [date |-> [digits |-> out[i].time.num, n |-> out[i].time.n],
         value |-> Some(out[i].value)]]

\* C22: the normalizer's output is exactly the input points whose value is
\* present, in their original order, and normalizing the output again gives
\* the same sequence.
C22_NormalizerFiltersInOrder ==
    pureOutput # Null =>
        LET out == TheOne(pureOutput)
            pts == pureInput.points
            field == lastOp[2]
        IN  /\ Len(out) = Cardinality(PresentAt(pts, field))
            /\ \A k \in 1..Len(out) :
                   LET p == pts[NthPresent(pts, field, k)]
                   IN  out[k] = [time |-> toTime(p.date), value |-> TheOne(p[field])]
            /\ LineData(AsOverlayPoints(out)) = out

\* An overlay sequence with an absent value between two present ones, the
\* first of them 0, was normalized to two points.
C22_Witness ==
    /\ pureOutput # Null
    /\ pureInput.kind = "overlay"
    /\ Len(pureInput.points) = 3
    /\ pureInput.points[1].value = Some(0)
    /\ pureInput.points[2].value = Null
    /\ pureInput.points[3].value = Some(7)
    /\ Len(TheOne(pureOutput)) = 2

(***************************************************************************)
(* StitcherSpec: the prediction stitching of the effect (part_002          *)
(* 188-202), run on its own on every last bar and every prediction         *)
(* sequence of up to MaxPoints points.  The time keys of one payload are   *)
(* all calendar dates or all timestamps.                                   *)
(***************************************************************************)
\* the bars: only the last one is read (188)
LastBarInputs(intraday) ==
    { <<[date |-> DateStr(intraday, k), close |-> 100, volume |-> 10]>> : k \in 1..2 }

\* PredictionPoint (api.ts 62-65)
PredictionPointInputs(intraday) ==
    [date : { DateStr(intraday, k) : k \in 1..3 }, value : {102, 105}]

StitcherInit ==
    /\ DashboardIdle
    /\ pureInput \in
           UNION { [data : LastBarInputs(intraday),
                    prediction : SeqsUpTo(PredictionPointInputs(intraday), MaxPoints)] :
                       intraday \in BOOLEAN }
    /\ pureOutput = Null
    /\ lastOp = <<"input", "">>

\* 188-202
Stitch ==
    /\ pureOutput = Null
    /\ pureOutput' = Some(PredictionData(pureInput.data, pureInput.prediction))
    /\ lastOp' = <<"stitch", "">>
    /\ UNCHANGED <<dashboardVars, pureInput>>

StitcherNext == Stitch

StitcherSpec == StitcherInit /\ [][StitcherNext]_vars

\* C23: the stitched sequence is non-decreasing in time key and no two
\* adjacent elements have the same time key, for calendar-date keys as well
\* as for numeric ones.
C23_StitchedAscendingNoDuplicates ==
    pureOutput # Null =>
        LET out == TheOne(pureOutput)
        IN  \A i \in 1..(Len(out) - 1) :
                /\ out[i].time.n <= out[i+1].time.n
                /\ out[i].time # out[i+1].time

\* C24: the first element of the stitched sequence has the last bar's close
\* as its value, also when prediction points lie at or before the last bar.
C24_StitchedStartsAtClose ==
    pureOutput # Null =>
        TheOne(pureOutput)[1].value = pureInput.data[Len(pureInput.data)].close

\* The stable ascending order of a sequence of points by time key: a point
\* goes after the points with a smaller key and after the earlier points with
\* the same key.
RankByTime(points, i) ==
    1 + Cardinality({ j \in 1..Len(points) :
                         \/ points[j].time.n < points[i].time.n
                         \/ points[j].time.n = points[i].time.n /\ j < i })

AscendingByTime(points) ==
    [k \in 1..Len(points) |->
        points[CHOOSE i \in 1..Len(points) : RankByTime(points, i) = k]]

\* C25: the stitched sequence is the anchor {lastBar.time, lastBar.close}
\* with every prediction point whose time key differs from the last bar's,
\* in ascending time order, adjacent equal time keys collapsed to the first;
\* bars [{1,100}] with prediction [{2,102},{3,105}] give [{1,100},{2,102},{3,105}].
C25_StitchedIsAnchorPlusLaterPoints ==
    pureOutput # Null =>
        LET lastBar == pureInput.data[Len(pureInput.data)]
            kept == SelectSeq(pureInput.prediction,
                              LAMBDA p : toTime(p.date) # toTime(lastBar.date))
            all == <<[time |-> toTime(lastBar.date), value |-> lastBar.close]>>
                   \o [i \in 1..Len(kept) |->
                          [time |-> toTime(kept[i].date), value |-> kept[i].value]]
            sorted == AscendingByTime(all)
            first == { i \in 1..Len(sorted) :
                           i = 1 \/ sorted[i].time # sorted[i-1].time }
        IN  /\ Len(TheOne(pureOutput)) = Cardinality(first)
            /\ \A k \in 1..Cardinality(first) :
                   TheOne(pureOutput)[k]
                       = sorted[CHOOSE i \in first :
                                    Cardinality({ j \in first : j <= i }) = k]

\* The window of the chart a ref holds
WindowOf(ref) == (CHOOSE c \in charts : c.id \in ref).window

\* C26: after a render of N bars the price chart shows the most recent
\* min(120, N) bars (everything when N <= 120) and the oscillator chart the
\* most recent min(120, M) of its M MACD-line points, whatever was shown
\* before.
C26_DefaultVisibleWindow ==
    (ChartShown /\ priceChartRef # Null) =>
        LET N == Len(TheOne(analysis).ohlcv)
            M == Len(MacdData(TheOne(TheOne(analysis).overlays).macd, "macd"))
        IN  /\ WindowOf(priceChartRef) =
                   IF N <= 120 THEN FitContent ELSE LogicalRange(N - 120, N)
            /\ macdChartRef # Null =>
                   WindowOf(macdChartRef) =
                       IF M <= 120 THEN FitContent ELSE LogicalRange(M - 120, M)

\* 40 bars are shown in full right after 130 bars were shown with a window.
C26_Witness ==
    /\ ChartShown
    /\ lastOp = <<"ok", "refresh", "">>
    /\ Len(TheOne(analysis).ohlcv) = 40
    /\ WindowOf(priceChartRef) = FitContent
    /\ macdChartRef # Null
    /\ WindowOf(macdChartRef) = FitContent

(***************************************************************************)
(* Further claims about the dashboard (checked under Spec).                *)
(***************************************************************************)
\* C27: while no user is signed in no analysis request is issued, neither by
\* a search, nor by the manual refresh, nor by a tick of the refresh timer.
C27_NoFetchWithoutUser ==
    [][IssuedBy # {} => user]_vars

\* C28: when a refresh has completed, successfully or not, and auto-refresh
\* is still on for an active symbol, a timer is armed, and a further tick
\* fires unless auto-refresh is switched off or the page goes away first (or
\* the model's request budget is used up).
C28_SchedulerSurvivesRefresh ==
    /\ [][((\E r \in SettledBy : r.kind # "search")
              /\ mounted' /\ autoRefresh' /\ currentTicker' # "")
             => timers' # {}]_vars
    /\ (lastOp[1] \in {"ok", "fail"} /\ lastOp[2] # "search"
           /\ mounted /\ autoRefresh /\ currentTicker # "")
         ~> (lastOp[1] = "tick" \/ ~autoRefresh \/ ~mounted
                \/ nIssued = MaxRequests)

\* A timer refresh has failed, the dashboard is still live and a tick can
\* still issue a request.
C28_Witness ==
    /\ lastOp = <<"fail", "timer">>
    /\ mounted
    /\ autoRefresh
    /\ currentTicker # ""
    /\ timers # {}
    /\ nIssued < MaxRequests

\* A search step that changes the symbol.
SymbolChange == lastOp'[1] = "search" /\ currentTicker' # currentTicker

\* C29: the step that selects a new symbol puts lastRefreshed back to none
\* and isRefreshing back to false, and leaves no timer armed that was pending
\* for the old symbol.
C29_SymbolChangeResetsRefreshState ==
    [][SymbolChange => /\ lastRefreshed' = Null
                       /\ isRefreshing' = FALSE
                       /\ \A id \in timers : id \notin timers']_vars

\* A step of a timer tick's refresh: the tick itself, or the completion of a
\* request a tick issued.
TimerRefreshStep ==
    \/ lastOp'[1] = "tick"
    \/ \E r \in SettledBy : r.kind = "timer"

\* C30: no step of a timer tick's refresh, from the tick to the completion of
\* its request by success or by failure, changes isLoading or error.
C30_TimerRefreshSilent ==
    [][TimerRefreshStep => (isLoading' = isLoading /\ error' = error)]_vars

\* C30 witness: a timer-issued request has just failed while the page is
\* mounted and shows the data of the search before it; nothing is loading and
\* no error is shown.
C30_Witness ==
    /\ lastOp = <<"fail", "timer">>
    /\ mounted
    /\ analysis # Null
    /\ ~isLoading
    /\ error = Null

(***************************************************************************)
(* MarketListSpec: the market list of the sidebar (MarketList.tsx), on its *)
(* own.  A fetch is [id, category, cancelled]: one call of                 *)
(* getWatchlistCategory with the cancelled flag of the effect run that     *)
(* made it (MarketList.tsx 34).                                            *)
(***************************************************************************)
MaxFetches == 3      \* category requests issued in one behaviour

\* CATEGORIES (MarketList.tsx 21-25)
Categories == {"stocks", "crypto", "tokens"}

\* The item lists the server may answer for a category (api.ts 108-114,
\* 130-138); only the tickers matter.
WatchlistItems(category) ==
    CASE category = "stocks" -> { <<[ticker |-> "AAPL"], [ticker |-> "TSLA"]>>,
                                  <<[ticker |-> "AAPL"]>> }
      [] category = "crypto" -> { <<[ticker |-> "BTC-USD"]>> }
      [] category = "tokens" -> { <<[ticker |-> "UNI-USD"]>>, <<>> }

\* api.ts 134-136: the message of the error a failed request throws
WatchlistError(category) == <<"Failed to fetch", category>>

\* Mutant of CancelFetches: the cleanup leaves the flag as it is.
CancelFetchesNone(fetches) == fetches

\* MarketList.tsx 49-51: the cleanup sets the cancelled flag of its effect
\* run; the flags of the runs before it are set already.
CancelFetches(fetches) == { [f EXCEPT !.cancelled = TRUE] : f \in fetches }

\* MarketList.tsx 34-47: the effect body up to the promise callbacks
MarketListEffect(ml, tab) ==
    [ml EXCEPT !.isLoading = TRUE,
               !.error = Null,
               !.fetches = @ \cup {[id |-> ml.nFetches + 1, category |-> tab,
                                    cancelled |-> FALSE]},
               !.nFetches = @ + 1]

\* The sidebar is rendered and the effect runs for the first time.
MarketListMount ==
    /\ marketList.stage = "constructed"
    /\ marketList' = MarketListEffect([marketList EXCEPT !.stage = "mounted"],
                                      marketList.activeTab)
    /\ lastOp' = <<"marketMount", "">>
    /\ UNCHANGED <<authVars, mounted, homeVars, timerVars, netVars, chartVars,
                   pureVars>>

\* MarketList.tsx 61: a click on a tab.  setActiveTab with the tab that is
\* active re-renders nothing; another tab runs the cleanup and the effect.
setActiveTab(key) ==
    /\ marketList.stage = "mounted"
    /\ key # marketList.activeTab
    /\ marketList.nFetches < MaxFetches
    /\ marketList' =
           MarketListEffect([marketList EXCEPT
                                 !.activeTab = key,
                                 !.fetches = CancelFetches(@)], key)
    /\ lastOp' = <<"setActiveTab", key>>
    /\ UNCHANGED <<authVars, mounted, homeVars, timerVars, netVars, chartVars,
                   pureVars>>

\* How a settled fetch stands to the component: "stale" when a later effect
\* run has replaced it or the component has unmounted, "current" otherwise.
FetchStanding(f) ==
    IF f.id < marketList.nFetches \/ marketList.stage # "mounted"
    THEN "stale" ELSE "current"

\* MarketList.tsx 39-41, 45-47: the response arrives
CategorySucceeds(f, items) ==
    /\ f \in marketList.fetches
    /\ marketList' =
           IF f.cancelled
           THEN [marketList EXCEPT !.fetches = @ \ {f}]
           ELSE [marketList EXCEPT !.fetches = @ \ {f},
                                   !.items = items,
                                   !.isLoading = FALSE]
    /\ lastOp' = <<"categoryOk", FetchStanding(f)>>
    /\ UNCHANGED <<authVars, mounted, homeVars, timerVars, netVars, chartVars,
                   pureVars>>

\* MarketList.tsx 42-47: the request fails
CategoryFails(f) ==
    /\ f \in marketList.fetches
    /\ marketList' =
           IF f.cancelled
           THEN [marketList EXCEPT !.fetches = @ \ {f}]
           ELSE [marketList EXCEPT !.fetches = @ \ {f},
                                   !.error = Some(WatchlistError(f.category)),
                                   !.isLoading = FALSE]
    /\ lastOp' = <<"categoryFail", FetchStanding(f)>>
    /\ UNCHANGED <<authVars, mounted, homeVars, timerVars, netVars, chartVars,
                   pureVars>>

\* The sidebar leaves the page: the cleanup runs (MarketList.tsx 49-51).
MarketListUnmount ==
    /\ marketList.stage = "mounted"
    /\ marketList' = [marketList EXCEPT !.stage = "unmounted",
                                        !.fetches = CancelFetches(@)]
    /\ lastOp' = <<"marketUnmount", "">>
    /\ UNCHANGED <<authVars, mounted, homeVars, timerVars, netVars, chartVars,
                   pureVars>>

MarketListInit ==
    /\ DashboardIdle
    /\ pureInput = <<>>
    /\ pureOutput = Null
    /\ lastOp = <<"mount", "">>

MarketListNext ==
    \/ MarketListMount
    \/ \E key \in Categories : setActiveTab(key)
    \/ \E f \in marketList.fetches :
           \E items \in WatchlistItems(f.category) : CategorySucceeds(f, items)
    \/ \E f \in marketList.fetches : CategoryFails(f)
    \/ MarketListUnmount

MarketListSpec == MarketListInit /\ [][MarketListNext]_vars

\* MarketList.tsx 86: the list is on the page
ListShown ==
    /\ marketList.stage = "mounted"
    /\ ~marketList.isLoading
    /\ marketList.error = Null
    /\ marketList.items # <<>>

\* C38: the arrival of a response or of an error for a fetch that a tab
\* change has replaced, or after the unmount, changes none of items, error and
\* isLoading; and a list that is on the page is an answer for the active tab.
C38_StaleCategoryIgnored ==
    /\ [][lastOp'[2] = "stale"
             => /\ marketList'.items = marketList.items
                /\ marketList'.error = marketList.error
                /\ marketList'.isLoading = marketList.isLoading]_vars
    /\ [](ListShown => marketList.items \in WatchlistItems(marketList.activeTab))

\* The answer for the tab left behind arrived after the answer for the
\* active tab; the list of the active tab is on the page.
C38_Witness ==
    /\ lastOp = <<"categoryOk", "stale">>
    /\ marketList.activeTab = "crypto"
    /\ ListShown
    /\ marketList.fetches = {}

(***************************************************************************)
(* Claims about the dashboard as a whole (checked under Spec).             *)
(***************************************************************************)
\* C34: in every state of the dashboard the error is null or the analysis
\* is null.
C34_ErrorExcludesAnalysis == error = Null \/ analysis = Null

\* C35: the response to a request never replaces, as the displayed analysis,
\* the response to a request that was issued after it.
C35_LatestResponseWins ==
    [][\A r \in SettledBy :
          (analysis # Null /\ analysis' = Some(r))
              => TheOne(analysis).id <= r.id]_vars

\* The requests silentRefresh has issued that are not settled
RefreshesOutstanding == { r \in inflight : r.kind # "search" }

\* C36: while the dashboard is mounted, isRefreshing is true exactly when a
\* request of silentRefresh is outstanding.
C36_IsRefreshingAccurate ==
    mounted => (isRefreshing <=> RefreshesOutstanding # {})

\* C37: while the dashboard is mounted at most one interval timer is armed,
\* and one is armed exactly when autoRefresh is true and currentTicker is
\* non-empty; once it has unmounted none is armed.
C37_OneTimerIffLive ==
    /\ mounted => /\ Cardinality(timers) <= 1
                  /\ timers # {} <=> (autoRefresh /\ currentTicker # "")
    /\ ~mounted => timers = {}

\* The timer of the second symbol is the only one armed, after auto-refresh
\* was switched off and on again.
C37_Witness ==
    /\ mounted
    /\ lastOp[1] = "toggle"
    /\ autoRefresh
    /\ Cardinality(timers) = 1
    /\ timers = refreshTimer
    /\ analysis # Null
    /\ TheOne(analysis).ticker # currentTicker

\* C39: every analysis request the search bar or the refresh path has
\* started carries a non-empty ticker, and so do the symbol the dashboard
\* holds after a search and the parameters a refresh reads.
C39_RequestsCarryTicker ==
    /\ \A r \in inflight : r.ticker # ""
    /\ analysis # Null => TheOne(analysis).ticker # ""
    /\ nIssued > 0 => (currentTicker # "" /\ latestParamsRef.ticker # "")

\* A search typed with blanks around it, a manual refresh and a tick are in
\* flight, each for TSLA.
C39_Witness ==
    /\ \E r \in inflight : r.kind = "search" /\ r.ticker = "TSLA"
    /\ \E r \in inflight : r.kind = "manual" /\ r.ticker = "TSLA"
    /\ \E r \in inflight : r.kind = "timer" /\ r.ticker = "TSLA"

====
